---- MODULE Spec2Model ----
(***************************************************************************)
(* Node-based dataflow simulation engines of LambdaTheSimulationProject.    *)
(*                                                                         *)
(*  Part I   project/vcvApproach/simpletype5.py   (Tk patch platform: App,  *)
(*           Module, Scope, Port, Cable)                                    *)
(*  Part II  approaches/vcvApproach/prototype8/prototype8.py  (Port, Node   *)
(*           kinds, NodeEditorScene.connect_nodes, SimulationEngine)        *)
(*  Part III project/synthAndABM.py  (SynthEnvironment)                    *)
(*  Part IV  project/vcvApproach/dirtyPrototype5.py  (App, Module, Port)    *)
(*                                                                         *)
(* Port values are Python floats in the source; the model computes with    *)
(* integers (exact arithmetic).  A Port object is identified by its owning *)
(* module and the generation of that module's port list: Module._draw      *)
(* builds new Port objects on every call, so a Cable may keep a Port that   *)
(* is no longer in module.inputs / module.outputs.                          *)
(***************************************************************************)
EXTENDS Integers, Sequences, FiniteSets, TLC

\* ------------------------------------------------------------------ bounds
MaxVal == 8
MaxCables == 2
MaxPending == 2
MaxTicks == 3
HistoryLen == 2

\* ------------------------------------------------------------- generic
Range(s) == {s[i] : i \in 1..Len(s)}

RECURSIVE SumSet(_, _)
\* sum of f[i] for i in the finite set S
SumSet(f, S) ==
  IF S = {} THEN 0
  ELSE LET i == CHOOSE j \in S : TRUE IN f[i] + SumSet(f, S \ {i})

RemoveAt(s, i) == [j \in 1..(Len(s) - 1) |-> IF j < i THEN s[j] ELSE s[j + 1]]

\* list.remove(x): removes the first occurrence
RemoveFirst(s, x) ==
  IF \E i \in 1..Len(s) : s[i] = x
  THEN RemoveAt(s, CHOOSE i \in 1..Len(s) : s[i] = x /\ \A j \in 1..(i - 1) : s[j] # x)
  ELSE s

\* =========================================================================
\* Part I : simpletype5.py
\* =========================================================================

\* The module objects of the patch: two compute Modules and one Scope.
Mods == {1, 2, 3, 4}
ScopeMods == {3}
IsScope(m) == m \in ScopeMods
Modes == {"add", "wire", "move", "delete", "math"}

VARIABLES
  modules,        \* App.modules : list of Module
  cables,         \* App.cables  : list of Cable (src Port, dst Port)
  inputs_def,     \* Module.inputs_def
  outputs_def,    \* Module.outputs_def
  code,           \* Module.code
  gen,            \* generation of the Port objects in Module.inputs/outputs
  port_items,     \* whether the canvas items of the module's current ports exist
  value,          \* Port.value, for every Port object still referenced
  history,        \* Scope.history
  running, paused,\* App.running, App.paused
  pending,        \* number of scheduled root.after(_tick) callbacks
  mode,           \* the active ModeSpec
  button,         \* mouse button 1: "up" or "down"
  move_active, move_target,   \* App.move_active, App.move_target (0 = None)
  drag_src_port,  \* App.drag_src_port (NoPort = None); temp_line is set with it
  last            \* the handler that ran last and the _do_tick calls it made

st5vars == <<modules, cables, inputs_def, outputs_def, code, gen, port_items,
             value, history, running, paused, pending, mode, button,
             move_active, move_target, drag_src_port, last>>

\* prototype8 (Part II): scene.nodes, Port.connections, scene.connections,
\* Port.value, IntegratorNode.state["value"], engine time and history
VARIABLES p8_nodes, p8_connections, p8_scene_connections, p8_value, p8_state,
          p8_time, p8_history, p8_last, p8_is_running

p8vars == <<p8_nodes, p8_connections, p8_scene_connections, p8_value, p8_state,
            p8_time, p8_history, p8_last, p8_is_running>>

\* synthAndABM: SynthEnvironment.agents (ids in insertion order), the inputs
\* dict of every agent, SynthEnvironment.connections
VARIABLES syn_agents, syn_inputs, syn_connections
synvars == <<syn_agents, syn_inputs, syn_connections>>

\* Part IV: project/vcvApproach/dirtyPrototype5.py (App and Module fields)
VARIABLES dp_modules, dp_inputs_def, dp_outputs_def, dp_code, dp_gen,
          dp_inputs, dp_outputs, dp_value, dp_cables, dp_drag_src_port,
          dp_mode, dp_last
dpvars == <<dp_modules, dp_inputs_def, dp_outputs_def, dp_code, dp_gen,
            dp_inputs, dp_outputs, dp_value, dp_cables, dp_drag_src_port,
            dp_mode, dp_last>>


\* ---------------------------------------------------------------- Port
\* pos is the index of the Port object in module.inputs / module.outputs
Port(m, g, k, n, i) == [module |-> m, gen |-> g, kind |-> k, name |-> n, pos |-> i]
NoPort == Port(0, 0, "none", "", 0)

\* Module._make_ports: one Port per declared name, kind by side
MakePorts(m, g, names, k) == [i \in 1..Len(names) |-> Port(m, g, k, names[i], i)]

Inputs(m, g, idef) == MakePorts(m, g[m], idef[m], "in")
Outputs(m, g, odef) == MakePorts(m, g[m], odef[m], "out")

LivePorts(g, idef, odef) ==
  UNION {Range(Inputs(m, g, idef)) \cup Range(Outputs(m, g, odef)) : m \in Mods}

CablePorts(cs) == {cs[i].src : i \in 1..Len(cs)} \cup {cs[i].dst : i \in 1..Len(cs)}

\* Port objects that are still referenced by the application
Referenced(cs, drag) == CablePorts(cs) \cup ({drag} \ {NoPort})

\* Object identity carries no order: generations are renumbered so that the
\* referenced generations of a module are 0..k, the current one last.
GensOf(m, g, refs) == {g[m]} \cup {p.gen : p \in {q \in refs : q.module = m}}

\* New heap after a handler: ports created by _draw start at 0.0, unreferenced
\* ports are dropped, generations renumbered.
Heap(val, g, cs, drag, idef, odef) ==
  LET refs == Referenced(cs, drag)
      G == [m \in Mods |-> GensOf(m, g, refs)]
      rk == [m \in Mods |-> [x \in G[m] |-> Cardinality({h \in G[m] : h < x})]]
      ren(p) == IF p = NoPort THEN p ELSE [p EXCEPT !.gen = rk[p.module][p.gen]]
      keep == LivePorts(g, idef, odef) \cup refs
      newval == [p \in keep |-> IF p \in DOMAIN val THEN val[p] ELSE 0]
      back == [q \in {ren(p) : p \in keep} |->
                 [q EXCEPT !.gen = CHOOSE x \in G[q.module] : rk[q.module][x] = q.gen]]
  IN [ gen |-> [m \in Mods |-> rk[m][g[m]]],
       cables |-> [i \in 1..Len(cs) |-> [src |-> ren(cs[i].src), dst |-> ren(cs[i].dst)]],
       drag |-> ren(drag),
       value |-> [q \in DOMAIN back |-> newval[back[q]]] ]

\* ------------------------------------------------------ Module.evaluate
\* A formula is a list of statements, executed by exec() in order:
\*   "set"  tgt = val            "sum"  tgt = args[1] + args[2] + ...
\*   "str"  tgt = "text"         "raise"  a statement that raises
Stmt(op, tgt, args, v) == [op |-> op, tgt |-> tgt, args |-> args, val |-> v]
Num(v) == [num |-> TRUE, v |-> v]
NonNum == [num |-> FALSE, v |-> 0]

RECURSIVE SumArgs(_, _)
SumArgs(env, args) ==
  IF args = <<>> THEN 0 ELSE env[Head(args)].v + SumArgs(env, Tail(args))

\* exec(self.code, ..., env) inside try/except: the environment when the code
\* ends or raises
RECURSIVE Exec(_, _)
Exec(stmts, env) ==
  IF stmts = <<>> THEN env
  ELSE LET s == Head(stmts) IN
    CASE s.op = "set" ->
           Exec(Tail(stmts), [n \in DOMAIN env \cup {s.tgt} |->
                                IF n = s.tgt THEN Num(s.val) ELSE env[n]])
      [] s.op = "str" ->
           Exec(Tail(stmts), [n \in DOMAIN env \cup {s.tgt} |->
                                IF n = s.tgt THEN NonNum ELSE env[n]])
      [] s.op = "sum" ->
           IF \A i \in 1..Len(s.args) :
                s.args[i] \in DOMAIN env /\ env[s.args[i]].num
           THEN Exec(Tail(stmts), [n \in DOMAIN env \cup {s.tgt} |->
                                IF n = s.tgt THEN Num(SumArgs(env, s.args)) ELSE env[n]])
           ELSE env
      [] OTHER -> env

\* whether exec raised (the exception is swallowed)
RECURSIVE Raises(_, _)
Raises(stmts, env) ==
  IF stmts = <<>> THEN FALSE
  ELSE LET s == Head(stmts) IN
    CASE s.op = "set" ->
           Raises(Tail(stmts), [n \in DOMAIN env \cup {s.tgt} |->
                                IF n = s.tgt THEN Num(s.val) ELSE env[n]])
      [] s.op = "str" ->
           Raises(Tail(stmts), [n \in DOMAIN env \cup {s.tgt} |->
                                IF n = s.tgt THEN NonNum ELSE env[n]])
      [] s.op = "sum" ->
           IF \A i \in 1..Len(s.args) :
                s.args[i] \in DOMAIN env /\ env[s.args[i]].num
           THEN Raises(Tail(stmts), [n \in DOMAIN env \cup {s.tgt} |->
                                IF n = s.tgt THEN Num(SumArgs(env, s.args)) ELSE env[n]])
           ELSE TRUE
      [] OTHER -> TRUE

\* Module.evaluate: ok = FALSE when float(env.get(name, 0.0)) raises, outside
\* the try block; res maps each declared output name to its value
Evaluate(cd, odef, ins) ==
  LET env0 == [n \in DOMAIN ins |-> Num(ins[n])]
      env == Exec(cd, env0)
      names == Range(odef)
  IN [ ok |-> \A n \in names : n \in DOMAIN env => env[n].num,
       res |-> [n \in names |-> IF n \in DOMAIN env /\ env[n].num THEN env[n].v ELSE 0] ]

\* a buffer that never drops a sample
ScopeAppendAll(buf, v) == Append(buf, v)

\* Scope.evaluate: append each input to its buffer, drop the oldest past
\* history_len
ScopeAppend(buf, v) ==
  LET b == Append(buf, v) IN IF Len(b) > HistoryLen THEN Tail(b) ELSE b

ScopeEvaluate(h, ins) ==
  [n \in DOMAIN h |-> ScopeAppend(h[n], IF n \in DOMAIN ins THEN ins[n] ELSE 0)]

\* ------------------------------------------------------------ _do_tick
\* phase 1: zero the inputs of every module of App.modules
ZeroInputs(val, mods, g, idef) ==
  [p \in DOMAIN val |->
     IF \E m \in Range(mods) : p \in Range(Inputs(m, g, idef)) THEN 0 ELSE val[p]]

\* phase 2: for c in list(self.cables): c.dst.value += float(c.src.value)
RECURSIVE Propagate(_, _)
Propagate(val, cs) ==
  IF cs = <<>> THEN val
  ELSE LET c == Head(cs) IN
       Propagate([val EXCEPT ![c.dst] = @ + val[c.src]], Tail(cs))

\* inputs = {p.name: float(p.value) for p in m.inputs}
InputDict(m, val, g, idef) ==
  LET ps == Inputs(m, g, idef) IN
  [n \in Range(idef[m]) |->
     val[ps[CHOOSE i \in 1..Len(ps) :
               ps[i].name = n /\ \A j \in (i + 1)..Len(ps) : ps[j].name # n]]]

\* out_by_name = {p.name: p for p in m.outputs}: each result is written to
\* the last output port of that name
WriteOutputs(m, val, res, g, odef) ==
  LET outs == Range(Outputs(m, g, odef)) IN
  [p \in DOMAIN val |->
     IF /\ p \in outs
        /\ p.name \in DOMAIN res
        /\ \A q \in outs : q.name = p.name => q.pos <= p.pos
     THEN res[p.name] ELSE val[p]]

\* if "noise" in inputs: inputs["noise"] = (random.random() - 0.5) * 2.0
\* x is the number drawn for this module
WithNoise(ins, x) == [n \in DOMAIN ins |-> IF n = "noise" THEN x ELSE ins[n]]

\* phase 3: evaluate the modules in list order; an exception leaving
\* Module.evaluate ends the tick there. nz[m] is the random number drawn for
\* module m (one draw for each module with an input named noise)
RECURSIVE EvalModules(_, _, _, _, _, _, _, _)
EvalModules(ms, val, hist, g, idef, odef, cd, nz) ==
  IF ms = <<>> THEN [value |-> val, history |-> hist, raised |-> FALSE, evaluated |-> {}]
  ELSE
    LET m == Head(ms)
        ins0 == InputDict(m, val, g, idef)
        ins == IF "noise" \in DOMAIN ins0 THEN WithNoise(ins0, nz[m]) ELSE ins0
    IN IF IsScope(m)
       THEN LET r == EvalModules(Tail(ms), val,
                       [hist EXCEPT ![m] = ScopeEvaluate(hist[m], ins)],
                       g, idef, odef, cd, nz)
            IN [r EXCEPT !.evaluated = @ \cup {m}]
       ELSE LET e == Evaluate(cd[m], odef[m], ins) IN
            IF ~e.ok
            THEN [value |-> val, history |-> hist, raised |-> TRUE, evaluated |-> {}]
            ELSE LET r == EvalModules(Tail(ms), WriteOutputs(m, val, e.res, g, odef),
                            hist, g, idef, odef, cd, nz)
                 IN [r EXCEPT !.evaluated = @ \cup {m}]

\* the port values after phases 1 and 2
AfterPropagation(val, mods, cs, g, idef) ==
  Propagate(ZeroInputs(val, mods, g, idef), cs)

\* phases 1-3, then (unless an exception ended the tick) every Scope is
\* redrawn, which replaces its Port objects
DoTick(mods, cs, val, hist, g, idef, odef, cd, nz) ==
  LET r == EvalModules(mods, AfterPropagation(val, mods, cs, g, idef),
                       hist, g, idef, odef, cd, nz)
  IN [ value |-> r.value, history |-> r.history, raised |-> r.raised,
       evaluated |-> r.evaluated,
       gen |-> [m \in Mods |->
                  IF ~r.raised /\ IsScope(m) /\ m \in Range(mods)
                  THEN g[m] + 1 ELSE g[m]] ]

\* the values (random.random() - 0.5) * 2.0 can take, in the model's integers
NoiseVals == {0 - 1, 0}

\* the draws of one tick: one number for each listed module that has an input
\* named noise
NoisyMods == {m \in Range(modules) : "noise" \in Range(inputs_def[m])}
NoiseDraws == [NoisyMods -> NoiseVals]

\* the results _do_tick can produce in the current state
TickOutcomes ==
  {DoTick(modules, cables, value, history, gen, inputs_def, outputs_def, code, nz) :
     nz \in NoiseDraws}

\* the result of _do_tick (the only one when no input is named noise)
Tick == CHOOSE t \in TickOutcomes : TRUE

InBounds(val) == \A p \in DOMAIN val : val[p] \in (0 - MaxVal)..MaxVal

\* ------------------------------------------------------------- App state
\* the formulas given to the two compute modules (Module.code)
CodeSum == << Stmt("sum", "out", <<"a", "b">>, 0) >>
CodeOne == << Stmt("set", "out", <<>>, 1) >>
CodeSetThenRaise == << Stmt("set", "out", <<>>, 1), Stmt("raise", "", <<>>, 0) >>
CodeText == << Stmt("str", "out", <<>>, 0) >>
CodePool == {CodeSum, CodeSetThenRaise, CodeText}
CodeFive == << Stmt("set", "out", <<>>, 5) >>
CodeThree == << Stmt("set", "out", <<>>, 3) >>

\* the module a click in add mode creates, not built yet when the
\* application starts; its default formula "out = in" does not compile
NewMod == 4
CodeIn == << Stmt("raise", "", <<>>, 0) >>

ZeroBuf == [i \in 1..HistoryLen |-> 0]

\* the state App.__init__ leaves, with the module definitions as given;
\* scope_inputs are the inputs of the seeded Scope
St5Seed(scope_inputs) ==
  /\ inputs_def = (1 :> <<"a", "b">>) @@ (2 :> <<"in">>) @@ (3 :> scope_inputs)
                  @@ (NewMod :> <<>>)
  /\ outputs_def = (1 :> <<"out">>) @@ (2 :> <<"out">>) @@ (3 :> <<>>)
                   @@ (NewMod :> <<>>)
  /\ gen = [m \in Mods |-> 0]
  /\ value = [p \in LivePorts(gen, inputs_def, outputs_def) |-> 0]
  /\ history = [m \in ScopeMods |-> [n \in Range(inputs_def[m]) |-> ZeroBuf]]
  /\ running = FALSE
  /\ paused = FALSE
  /\ pending = 0
  /\ mode = "wire"
  /\ button = "up"
  /\ move_active = FALSE
  /\ move_target = 0
  /\ drag_src_port = NoPort
  /\ last = <<"init", 0>>

\* the seed with the noise input of the Scope left out
St5Base == St5Seed(<<"in1">>)

\* the cables a user can have drawn on the freshly built patch: any output
\* port to any input port of a listed module
FreshCables ==
  {[src |-> sp, dst |-> dp] :
     sp \in {p \in LivePorts(gen, inputs_def, outputs_def) : p.kind = "out"},
     dp \in UNION {Range(Inputs(m, gen, inputs_def)) : m \in Range(modules)}}

Wirings == UNION {[1..n -> FreshCables] : n \in 0..MaxCables}

\* editing session: the two compute modules, unwired (the Scope has been
\* deleted), the default sum formula in module 1
PatchInit ==
  /\ St5Base
  /\ modules = <<1, 2>>
  /\ port_items = [m \in Mods |-> m \in Range(modules)]
  /\ cables = <<>>
  /\ code = (1 :> CodeSum) @@ (2 :> CodeOne) @@ (3 :> <<>>) @@ (NewMod :> <<>>)

\* the patch as App.__init__ leaves it: the three modules, no cable
AppInit ==
  /\ St5Base
  /\ modules = <<1, 2, 3>>
  /\ port_items = [m \in Mods |-> m \in Range(modules)]
  /\ cables = <<>>
  /\ code = (1 :> CodeSum) @@ (2 :> CodeOne) @@ (3 :> <<>>) @@ (NewMod :> <<>>)

\* simulation session: a wired patch, any formula of the pool in module 1
EngineInit ==
  /\ St5Base
  /\ modules = <<1, 2, 3>>
  /\ port_items = [m \in Mods |-> m \in Range(modules)]
  /\ cables \in Wirings
  /\ \E c \in CodePool :
       code = (1 :> c) @@ (2 :> CodeOne) @@ (3 :> <<>>) @@ (NewMod :> <<>>)

\* simulation session on the seed with the Scope's noise input: a wired patch
NoiseInit ==
  /\ St5Seed(<<"in1", "noise">>)
  /\ modules = <<1, 2, 3>>
  /\ port_items = [m \in Mods |-> m \in Range(modules)]
  /\ cables \in Wirings
  /\ code = (1 :> CodeSum) @@ (2 :> CodeOne) @@ (3 :> <<>>) @@ (NewMod :> <<>>)

SetHeap(val, g, cs, drag) ==
  \E h \in {Heap(val, g, cs, drag, inputs_def, outputs_def)} :
  /\ value' = h.value
  /\ gen' = h.gen
  /\ cables' = h.cables
  /\ drag_src_port' = h.drag

\* the effect of one _do_tick call on the patch
ApplyTick(t) ==
  /\ InBounds(t.value)
  /\ SetHeap(t.value, t.gen, cables, drag_src_port)
  /\ history' = t.history

Static == UNCHANGED <<inputs_def, outputs_def, code, p8vars, synvars, dpvars>>
Mouse == UNCHANGED <<mode, button, move_active, move_target>>
Engine == UNCHANGED <<running, paused, pending>>

\* ------------------------------------------------- simulation control
\* App._tick, called directly by _start_sim or by the Tk timer
StartSim ==
  /\ pending < MaxPending
  /\ running' = TRUE
  /\ paused' = FALSE
  /\ \E t \in TickOutcomes :
       /\ ApplyTick(t)
       /\ pending' = IF t.raised THEN pending ELSE pending + 1
  /\ last' = <<"start", 1>>
  /\ UNCHANGED <<modules, port_items>>
  /\ Static /\ Mouse

\* a pause button that toggles the flag of a stopped engine too
PauseToggled(r, q) == ~q

\* _pause_sim: paused after the call, from (running, paused) before it
PausePaused(r, q) == IF r THEN ~q ELSE q

PauseSim ==
  /\ paused' = PausePaused(running, paused)
  /\ last' = <<"pause", 0>>
  /\ UNCHANGED <<modules, cables, gen, port_items, value, history, running,
                 pending, drag_src_port>>
  /\ Static /\ Mouse

\* values of the ports in m.inputs / m.outputs of every listed module
StopValues(val, mods, g, idef, odef) ==
  [p \in DOMAIN val |->
     IF \E m \in Range(mods) :
          p \in Range(Inputs(m, g, idef)) \cup Range(Outputs(m, g, odef))
     THEN 0 ELSE val[p]]

StopHistory(hist, mods) ==
  [m \in DOMAIN hist |->
     IF m \in Range(mods) THEN [n \in DOMAIN hist[m] |-> ZeroBuf] ELSE hist[m]]

\* every Scope of App.modules is redrawn by _stop_sim
StopGen(g, mods) ==
  [m \in Mods |-> IF IsScope(m) /\ m \in Range(mods) THEN g[m] + 1 ELSE g[m]]

StopSim ==
  /\ running' = FALSE
  /\ paused' = FALSE
  /\ SetHeap(StopValues(value, modules, gen, inputs_def, outputs_def),
             StopGen(gen, modules), cables, drag_src_port)
  /\ history' = StopHistory(history, modules)
  /\ last' = <<"stop", 0>>
  /\ UNCHANGED <<modules, port_items, pending>>
  /\ Static /\ Mouse

\* a forgotten "self.paused = True" in _step_sim
StepPausedKept(r, q) == q

\* _step_sim: paused after the call, from (running, paused) before it
StepPaused(r, q) == IF r THEN q ELSE TRUE

StepSim ==
  /\ running' = TRUE
  /\ paused' = StepPaused(running, paused)
  /\ \E t \in TickOutcomes : ApplyTick(t)
  /\ last' = <<"step", 1>>
  /\ UNCHANGED <<modules, port_items, pending>>
  /\ Static /\ Mouse

\* a scheduled root.after callback runs App._tick
TimerFire ==
  /\ pending > 0
  /\ IF running /\ ~paused
     THEN /\ \E t \in TickOutcomes :
               /\ ApplyTick(t)
               /\ pending' = IF t.raised THEN pending - 1 ELSE pending
          /\ last' = <<"timer", 1>>
     ELSE /\ pending' = IF running THEN pending ELSE pending - 1
          /\ last' = <<"timer", 0>>
          /\ UNCHANGED <<cables, gen, value, history, drag_src_port>>
  /\ UNCHANGED <<modules, port_items, running, paused>>
  /\ Static /\ Mouse

\* ------------------------------------------------------ editing the patch
\* hotkeys q/w/e/d/m are bound with bind_all
SetMode(k) ==
  /\ mode # k
  /\ mode' = k
  /\ last' = <<"ui", 0>>
  /\ UNCHANGED <<modules, cables, gen, port_items, value, history,
                 button, move_active, move_target, drag_src_port>>
  /\ Static /\ Engine

\* a removal that takes every cable into the same input port along
RemoveInto(cs, i) ==
  IF i \in 1..Len(cs) THEN SelectSeq(cs, LAMBDA c : c.dst # cs[i].dst) ELSE cs

\* if self in app.cables: app.cables.remove(self), for the cable at index i
\* (i = 0: a cable that is not in the list any more)
RemoveCable(cs, i) == IF i \in 1..Len(cs) THEN RemoveAt(cs, i) ELSE cs

\* Cable._remove (right click on the cable's line, or a second call on a
\* cable already removed)
CableRemove(i) ==
  /\ SetHeap(value, gen, RemoveCable(cables, i), drag_src_port)
  /\ last' = <<"remove", i>>
  /\ UNCHANGED <<modules, port_items, history>>
  /\ Static /\ Engine /\ Mouse

\* a save that detaches nothing
CablesAll(cs, m) == cs

\* App._delete_module: the cables kept, in order
RECURSIVE CablesNotOn(_, _)
CablesNotOn(cs, m) ==
  IF cs = <<>> THEN <<>>
  ELSE IF Head(cs).src.module = m \/ Head(cs).dst.module = m
       THEN CablesNotOn(Tail(cs), m)
       ELSE <<Head(cs)>> \o CablesNotOn(Tail(cs), m)

DeleteModule(m) ==
  /\ SetHeap(value, gen, CablesNotOn(cables, m), drag_src_port)
  /\ port_items' = [port_items EXCEPT ![m] = FALSE]
  /\ modules' = RemoveFirst(modules, m)

\* App._on_left_click with the pointer over the rectangle of module m
\* (m = 0: nothing of a listed module under the pointer)
OnLeftClick(m) ==
  CASE mode = "delete" /\ m # 0 ->
         /\ DeleteModule(m)
         /\ UNCHANGED <<move_active, move_target>>
    [] mode = "move" /\ m # 0 ->
         /\ move_active' = TRUE
         /\ move_target' = m
         /\ UNCHANGED <<modules, cables, gen, port_items, value, drag_src_port>>
    [] OTHER ->
         UNCHANGED <<modules, cables, gen, port_items, value, drag_src_port,
                     move_active, move_target>>

\* _on_left_click in add mode over the empty canvas: _add_module with the
\* default ports and formula (one module is added at most)
AddModule ==
  /\ NewMod \notin Range(modules) /\ outputs_def[NewMod] = <<>>
  /\ modules' = Append(modules, NewMod)
  /\ inputs_def' = [inputs_def EXCEPT ![NewMod] = <<"in">>]
  /\ outputs_def' = [outputs_def EXCEPT ![NewMod] = <<"out">>]
  /\ code' = [code EXCEPT ![NewMod] = CodeIn]
  /\ port_items' = [port_items EXCEPT ![NewMod] = TRUE]
  /\ \E h \in {Heap(value, gen, cables, drag_src_port, inputs_def', outputs_def')} :
       /\ value' = h.value /\ gen' = h.gen /\ cables' = h.cables
       /\ drag_src_port' = h.drag
  /\ UNCHANGED <<move_active, move_target>>

\* button 1 pressed over a module's rectangle or over the empty canvas
Press(m) ==
  /\ button = "up"
  /\ m = 0 \/ m \in Range(modules)
  /\ button' = "down"
  /\ IF mode = "add" /\ m = 0
     THEN AddModule
     ELSE OnLeftClick(m) /\ UNCHANGED <<inputs_def, outputs_def, code>>
  /\ last' = <<"ui", 0>>
  /\ UNCHANGED <<history, mode, p8vars, synvars, dpvars>>
  /\ Engine

\* button 1 pressed over the circle of output port p: the tag binding runs
\* Module._start_wire -> App.begin_wire_drag, then the canvas binding runs
\* _on_left_click (the circle lies inside the module's rectangle)
PressPort(p) ==
  /\ button = "up"
  /\ p.kind = "out"
  /\ port_items[p.module]
  /\ p \in Range(Outputs(p.module, gen, outputs_def))
  /\ button' = "down"
  /\ LET under == IF p.module \in Range(modules) THEN p.module ELSE 0 IN
     IF mode = "wire"
     THEN /\ drag_src_port' = p
          /\ UNCHANGED <<modules, cables, gen, port_items, value,
                         move_active, move_target>>
     ELSE OnLeftClick(under)
  /\ last' = <<"ui", 0>>
  /\ UNCHANGED <<history, mode>>
  /\ Static /\ Engine

\* Module._draw replaces the Port objects of the module (twice for a Scope
\* in _on_drag)
DrawGen(g, m) == [g EXCEPT ![m] = @ + (IF IsScope(m) THEN 2 ELSE 1)]

\* App._on_drag (B1-Motion)
Drag ==
  /\ button = "down"
  /\ mode = "move" /\ move_active /\ move_target # 0
  /\ SetHeap(value, DrawGen(gen, move_target), cables, drag_src_port)
  /\ port_items' = [port_items EXCEPT ![move_target] = TRUE]
  /\ last' = <<"ui", 0>>
  /\ UNCHANGED <<modules, history, mode, button, move_active, move_target>>
  /\ Static /\ Engine

\* the input ports _on_left_release can hit: those of the listed modules
Targets == UNION {Range(Inputs(m, gen, inputs_def)) : m \in Range(modules)}

\* App._on_left_release with the pointer over input port t (NoPort: over none)
Release(t) ==
  /\ button = "down"
  /\ t = NoPort \/ t \in Targets
  /\ button' = "up"
  /\ IF drag_src_port # NoPort
     THEN IF t # NoPort
          THEN /\ Len(cables) < MaxCables
               /\ SetHeap(value, gen,
                          Append(cables, [src |-> drag_src_port, dst |-> t]), NoPort)
          ELSE SetHeap(value, gen, cables, NoPort)
     ELSE /\ t = NoPort
          /\ UNCHANGED <<cables, gen, value, drag_src_port>>
  /\ IF mode = "move"
     THEN move_active' = FALSE /\ move_target' = 0
     ELSE UNCHANGED <<move_active, move_target>>
  /\ last' = <<"ui", 0>>
  /\ UNCHANGED <<modules, port_items, history, mode>>
  /\ Static /\ Engine

\* --------------------------------------------------------- the editor
\* what the user can leave in the Inputs and Outputs entries of the editor,
\* as the list of its non-empty comma-separated items, and in the code box
EditorInputs == {<<>>, <<"a", "a">>}
EditorOutputs == {<<>>, <<"out", "out">>}
EditorCodes == {CodeOne}

\* [s.strip() for s in entry.split(",") if s.strip()] or [default]
Names(items, default) == IF items = <<>> THEN <<default>> ELSE items

\* Module.open_editor.save, the editor having been opened by a double click
\* on module m in math mode (the dialog holds the grab until it is closed)
EditorSave(m, ein, eout, cd) ==
  /\ mode = "math"
  /\ button = "up"
  /\ m \in Range(modules)
  /\ inputs_def' = [inputs_def EXCEPT ![m] = Names(ein, "in")]
  /\ outputs_def' = [outputs_def EXCEPT ![m] = Names(eout, "out")]
  /\ code' = [code EXCEPT ![m] = cd]
  /\ \E h \in {Heap(value, [gen EXCEPT ![m] = @ + 1], CablesNotOn(cables, m),
                    drag_src_port, inputs_def', outputs_def')} :
       /\ value' = h.value
       /\ gen' = h.gen
       /\ cables' = h.cables
       /\ drag_src_port' = h.drag
  /\ port_items' = [port_items EXCEPT ![m] = TRUE]
  /\ last' = <<"save", m>>
  /\ UNCHANGED <<modules, history, p8vars, synvars, dpvars>>
  /\ Engine /\ Mouse

\* =========================================================================
\* Part II: approaches/vcvApproach/prototype8/prototype8.py
\* =========================================================================

\* the node objects: ConstantNode("Input"), GainNode("Spring K") and
\* IntegratorNode("Position") of create_demo_system
P8Nodes == {"Input", "SpringK", "Position", "Velocity"}
\* Probe is an object of the base class Node: no ports, compute does nothing
P8Class == [Input |-> "Constant", SpringK |-> "Gain", Position |-> "Integrator",
            Velocity |-> "Integrator", Probe |-> "Node"]

constant_value == 1
gain == 0 - 1
initial_value == 1
dt == 1
max_history == 2
MaxSteps == 3
MaxConns == 2
MaxP8Val == 4

\* the keys of Node.inputs and Node.outputs, in insertion order
P8InputNames(n) == IF P8Class[n] \in {"Constant", "Node"} THEN <<>> ELSE <<"in">>
P8OutputNames(n) == IF P8Class[n] = "Node" THEN <<>> ELSE <<"out">>

P8Port(n, o, name) == [node |-> n, is_output |-> o, name |-> name]
P8Ports ==
  UNION {{P8Port(n, FALSE, x) : x \in Range(P8InputNames(n))}
         \cup {P8Port(n, TRUE, x) : x \in Range(P8OutputNames(n))} : n \in P8Nodes}
P8Integrators == {n \in P8Nodes : P8Class[n] = "Integrator"}

\* IntegratorNode.initial_value of the two integrators
P8Initial == [Position |-> initial_value, Velocity |-> 0]

\* the nodes of the spring chain and their ports
ChainNodes == {"Input", "SpringK", "Position"}
ChainPorts == {p \in P8Ports : p.node \in ChainNodes}

\* the port names a caller may pass to connect_nodes
P8Names == {"in", "out"}

\* Port.get_value
get_value(p, conn, val) ==
  IF p.is_output THEN val[p]
  ELSE IF conn[p] # <<>> THEN val[conn[p][1]] ELSE 0

\* the value node n reads from its input "in" in compute
ReadIn(n, conn, val) == get_value(P8Port(n, FALSE, "in"), conn, val)

\* Node.compute of the three classes: the port values and states afterwards
Compute(n, conn, val, st) ==
  LET out == P8Port(n, TRUE, "out") IN
  CASE P8Class[n] = "Constant" ->
         [value |-> [val EXCEPT ![out] = constant_value], state |-> st]
    [] P8Class[n] = "Gain" ->
         [value |-> [val EXCEPT ![out] = ReadIn(n, conn, val) * gain], state |-> st]
    [] P8Class[n] = "Integrator" ->
         LET x == st[n] + ReadIn(n, conn, val) * dt IN
         [value |-> [val EXCEPT ![out] = x], state |-> [st EXCEPT ![n] = x]]
    [] OTHER -> [value |-> val, state |-> st]

\* for node in self.nodes: node.compute(self.dt); reads[p] is the value
\* get_value returned for input port p
RECURSIVE ComputeAll(_, _, _, _, _)
ComputeAll(ns, conn, val, st, reads) ==
  IF ns = <<>> THEN [value |-> val, state |-> st, reads |-> reads]
  ELSE LET n == Head(ns)
           c == Compute(n, conn, val, st)
           r == IF P8InputNames(n) = <<>> THEN reads
                ELSE [p \in DOMAIN reads \cup {P8Port(n, FALSE, "in")} |->
                        IF p = P8Port(n, FALSE, "in") THEN ReadIn(n, conn, val)
                        ELSE reads[p]]
       IN ComputeAll(Tail(ns), conn, c.value, c.state, r)

\* the empty dict
EmptyDict == [x \in {} |-> <<>>]

\* the inner loop of step over node.outputs.items(), for one node's entry
RECURSIVE RecordOutputs(_, _, _, _)
RecordOutputs(names, n, entry, val) ==
  IF names = <<>> THEN entry
  ELSE LET name == Head(names)
           old == IF name \in DOMAIN entry.values THEN entry.values[name] ELSE <<>>
           vs == Append(old, val[P8Port(n, TRUE, name)])
           over == Len(vs) > max_history
           e == [ time |-> IF over /\ Len(entry.time) > max_history
                           THEN Tail(entry.time) ELSE entry.time,
                  values |-> [x \in DOMAIN entry.values \cup {name} |->
                                IF x = name THEN (IF over THEN Tail(vs) ELSE vs)
                                ELSE entry.values[x]] ]
       IN RecordOutputs(Tail(names), n, e, val)

\* the "Store history" loop of step
RECURSIVE RecordHistory(_, _, _, _)
RecordHistory(ns, hist, val, t) ==
  IF ns = <<>> THEN hist
  ELSE LET n == Head(ns)
           e0 == IF n \in DOMAIN hist THEN hist[n]
                 ELSE [time |-> <<>>, values |-> EmptyDict]
           e1 == [e0 EXCEPT !.time = Append(@, t)]
           e2 == RecordOutputs(P8OutputNames(n), n, e1, val)
       IN RecordHistory(Tail(ns),
                        [x \in DOMAIN hist \cup {n} |-> IF x = n THEN e2 ELSE hist[x]],
                        val, t)

\* a step that forgets to advance the clock
StepClockKept(ns, conn, s) ==
  LET c == ComputeAll(ns, conn, s.value, s.state, EmptyDict) IN
  [ value |-> c.value, state |-> c.state,
    history |-> RecordHistory(ns, s.history, c.value, s.time),
    time |-> s.time ]

\* SimulationEngine.step on the engine state s = [value, state, time, history]
StepFn(ns, conn, s) ==
  LET c == ComputeAll(ns, conn, s.value, s.state, EmptyDict) IN
  [ value |-> c.value, state |-> c.state,
    history |-> RecordHistory(ns, s.history, c.value, s.time),
    time |-> s.time + dt ]

\* SimulationEngine.reset: only IntegratorNode.reset restores anything
ResetFn(ns, s) ==
  [ value |-> s.value,
    state |-> [n \in DOMAIN s.state |-> IF n \in Range(ns) THEN P8Initial[n] ELSE s.state[n]],
    history |-> EmptyDict,
    time |-> 0 ]

\* the engine state right after the nodes and the engine are constructed
FreshState ==
  [ value |-> [p \in P8Ports |-> 0],
    state |-> [n \in P8Integrators |-> P8Initial[n]],
    history |-> EmptyDict,
    time |-> 0 ]

\* k calls of step
RECURSIVE Run(_, _, _, _)
Run(ns, conn, s, k) == IF k = 0 THEN s ELSE Run(ns, conn, StepFn(ns, conn, s), k - 1)

P8Current == [value |-> p8_value, state |-> p8_state, history |-> p8_history, time |-> p8_time]

SetEngine(s) ==
  /\ p8_value' = s.value
  /\ p8_state' = s.state
  /\ p8_history' = s.history
  /\ p8_time' = s.time

P8Init ==
  /\ p8_nodes = <<>>
  /\ p8_connections = [p \in P8Ports |-> <<>>]
  /\ p8_scene_connections = <<>>
  /\ p8_value = FreshState.value
  /\ p8_state = FreshState.state
  /\ p8_history = FreshState.history
  /\ p8_time = FreshState.time
  /\ p8_last = <<"init", "">>
  /\ p8_is_running = FALSE

P8InBounds(val) == \A p \in DOMAIN val : val[p] \in (0 - MaxP8Val)..MaxP8Val

St5Idle == UNCHANGED <<st5vars, synvars, dpvars>>

\* the scene and the engine do not touch the window's sim_timer
TimerKept == UNCHANGED p8_is_running

\* NodeEditorScene.add_node
add_node(n) ==
  /\ n \notin Range(p8_nodes)
  /\ p8_nodes' = Append(p8_nodes, n)
  /\ p8_last' = <<"add_node", "">>
  /\ UNCHANGED <<p8_connections, p8_scene_connections, p8_value, p8_state,
                 p8_time, p8_history>>
  /\ St5Idle /\ TimerKept

\* the total length of the Port.connections lists (two entries per connection)
ConnectCount == SumSet([p \in P8Ports |-> Len(p8_connections[p])], P8Ports)

\* a connect_to that records the connection whatever the directions
ConnectAnyway(conn, self, other) ==
  [conn EXCEPT ![self] = Append(@, other), ![other] = Append(@, self)]

\* Port.connect_to called on port self: the connections lists afterwards
\* (unchanged when the call returns False)
connect_to(conn, self, other) ==
  IF self.is_output /\ ~other.is_output
  THEN [conn EXCEPT ![self] = Append(@, other), ![other] = Append(@, self)]
  ELSE conn

\* a direct call self.connect_to(other) on any two ports
ConnectTo(self, other) ==
  /\ ConnectCount < 2 * MaxConns
  /\ p8_connections' = connect_to(p8_connections, self, other)
  /\ p8_last' = <<"connect_to",
                   IF self.is_output /\ ~other.is_output THEN "True" ELSE "False">>
  /\ UNCHANGED <<p8_nodes, p8_scene_connections, p8_value, p8_state, p8_time, p8_history>>
  /\ St5Idle /\ TimerKept

\* NodeEditorScene.connect_nodes; the call returns True or False or raises
\* KeyError at the node_graphics lookup
connect_nodes(from_node, from_port_name, to_node, to_port_name) ==
  LET has_from == from_port_name \in Range(P8OutputNames(from_node))
      has_to == to_port_name \in Range(P8InputNames(to_node))
      from_port == P8Port(from_node, TRUE, from_port_name)
      to_port == P8Port(to_node, FALSE, to_port_name)
  IN
  /\ IF has_from /\ has_to
     THEN /\ ConnectCount < 2 * MaxConns
          /\ p8_connections' = connect_to(p8_connections, from_port, to_port)
          /\ IF from_node \in Range(p8_nodes) /\ to_node \in Range(p8_nodes)
             THEN /\ p8_scene_connections' =
                       Append(p8_scene_connections, <<from_port, to_port>>)
                  /\ p8_last' = <<"connect_nodes", "True">>
             ELSE /\ UNCHANGED p8_scene_connections
                  /\ p8_last' = <<"connect_nodes", "KeyError">>
     ELSE /\ UNCHANGED <<p8_connections, p8_scene_connections>>
          /\ p8_last' = <<"connect_nodes", "False">>
  /\ UNCHANGED <<p8_nodes, p8_value, p8_state, p8_time, p8_history>>
  /\ St5Idle /\ TimerKept

\* SimulationEngine.step
P8Step ==
  /\ p8_time < MaxSteps * dt
  /\ \E s \in {StepFn(p8_nodes, p8_connections, P8Current)} :
       /\ P8InBounds(s.value)
       /\ SetEngine(s)
  /\ p8_last' = <<"step", "">>
  /\ UNCHANGED <<p8_nodes, p8_connections, p8_scene_connections>>
  /\ St5Idle /\ TimerKept

\* SimulationEngine.reset
P8Reset ==
  /\ SetEngine(ResetFn(p8_nodes, P8Current))
  /\ p8_last' = <<"reset", "">>
  /\ UNCHANGED <<p8_nodes, p8_connections, p8_scene_connections>>
  /\ St5Idle /\ TimerKept

\* MainWindow.toggle_simulation: the Run / Pause button
toggle_simulation ==
  /\ p8_is_running' = ~p8_is_running
  /\ p8_last' = <<"toggle_simulation", "">>
  /\ UNCHANGED <<p8_nodes, p8_connections, p8_scene_connections, p8_value,
                 p8_state, p8_time, p8_history>>
  /\ St5Idle

\* MainWindow.reset_simulation: a running simulation is toggled off, the
\* engine is reset
reset_simulation ==
  /\ p8_is_running' = FALSE
  /\ SetEngine(ResetFn(p8_nodes, P8Current))
  /\ p8_last' = <<"reset_simulation", "">>
  /\ UNCHANGED <<p8_nodes, p8_connections, p8_scene_connections>>
  /\ St5Idle

\* the user edits the patch with the mouse and the mode hotkeys (modules are
\* added in SumNext)
PatchNext ==
  \/ \E k \in Modes \ {"add"} : SetMode(k)
  \/ \E i \in 1..Len(cables) : CableRemove(i)
  \/ \E m \in Mods \cup {0} : Press(m)
  \/ \E p \in LivePorts(gen, inputs_def, outputs_def) : PressPort(p)
  \/ Drag
  \/ \E t \in Targets \cup {NoPort} : Release(t)

\* the user drives the simulation controls; the Tk timer fires
EngineNext ==
  \/ StartSim
  \/ PauseSim
  \/ StopSim
  \/ StepSim
  \/ TimerFire

\* the scene is built and wired, the engine is stepped and reset
P8Next ==
  \/ \E n \in ChainNodes : add_node(n)
  \/ \E f, t \in ChainNodes : \E fn, tn \in P8Names : connect_nodes(f, fn, t, tn)
  \/ P8Step
  \/ P8Reset

\* ---------------------------------------------------------------------
\* Part III: project/synthAndABM.py
\* ---------------------------------------------------------------------
SynIds == {"Osc", "VCA1", "VCA2"}
SynClass == [Osc |-> "Oscillator", VCA1 |-> "VCA", VCA2 |-> "VCA"]
MaxSynConns == 2
\* editor saves per module in dirtyPrototype5
MaxDpGen == 2

\* the input an agent of each class reads in update_state (one of them)
SynInputName(a) == IF SynClass[a] = "Oscillator" THEN "fm" ELSE "audio_in"
SynInputNames == {"fm", "audio_in"}

\* no agent connected under an input name
NoAgent == ""

SynInit ==
  /\ syn_agents = <<>>
  /\ syn_inputs = [a \in SynIds |-> [n \in SynInputNames |-> NoAgent]]
  /\ syn_connections = <<>>

SynIdle == UNCHANGED <<st5vars, p8vars, dpvars>>

\* SynthEnvironment.add_agent (a ValueError leaves the environment as it is)
syn_add_agent(a) ==
  /\ a \notin Range(syn_agents)
  /\ syn_agents' = Append(syn_agents, a)
  /\ UNCHANGED <<syn_inputs, syn_connections>>
  /\ SynIdle

\* SynthEnvironment.add_connection, with Agent.add_input
add_connection(source_id, target_id, target_input_name) ==
  /\ Len(syn_connections) < MaxSynConns
  /\ IF source_id \notin Range(syn_agents) \/ target_id \notin Range(syn_agents)
     THEN UNCHANGED <<syn_inputs, syn_connections>>
     ELSE /\ syn_inputs' = [syn_inputs EXCEPT ![target_id][target_input_name] = source_id]
          /\ syn_connections' =
               Append(syn_connections, <<source_id, target_id, target_input_name>>)
  /\ UNCHANGED syn_agents
  /\ SynIdle

\* the sort key of get_update_order
OrderKey(a) ==
  CASE SynClass[a] \in {"Oscillator", "LFO"} -> 0
    [] SynClass[a] = "VCA" -> 1
    [] SynClass[a] = "Mixer" -> 2
    [] OTHER -> 5

WithKey(agents, k) == SelectSeq(agents, LAMBDA a : OrderKey(a) = k)

\* SynthEnvironment.get_update_order: sorted() is stable, agents with equal
\* keys keep their insertion order
get_update_order(agents) ==
  WithKey(agents, 0) \o WithKey(agents, 1) \o WithKey(agents, 2) \o WithKey(agents, 5)

\* a constant and the integrator that starts at 0.0 are added in either
\* order and connected, the engine is stepped and reset
IntegratorNext ==
  \/ \E n \in {"Input", "Velocity"} : add_node(n)
  \/ \E f, t \in {"Input", "Velocity"} : \E fn, tn \in P8Names : connect_nodes(f, fn, t, tn)
  \/ P8Step
  \/ P8Reset

\* =========================================================================
\* Part IV: project/vcvApproach/dirtyPrototype5.py
\* =========================================================================
\* the two seeded modules and the one a click in add mode creates
DpMods == {1, 2, 3}
DpNewMod == 3

\* Port(self, name, kind, x, y); g is the generation of the module's ports
DpPort(m, g, k, n) == [module |-> m, gen |-> g, kind |-> k, name |-> n]

\* Module._make_ports: ports = []; the loop builds a Port and its canvas
\* items for each name and never adds it to ports; return ports
dp_make_ports(m, g, names, side) == <<>>

\* the Port whose circle on the canvas carries the <Button-1> binding of
\* output name n
DpCircle(m, n) == DpPort(m, dp_gen[m], "out", n)

\* values of the Port objects the application still holds; a new Port starts
\* at 0.0
DpHeap(val, ins, outs, cs, drag) ==
  LET keep == UNION {Range(ins[m]) \cup Range(outs[m]) : m \in DpMods}
                \cup CablePorts(cs) \cup ({drag} \ {NoPort})
  IN [p \in keep |-> IF p \in DOMAIN val THEN val[p] ELSE 0]

\* the formulas of Company X and Worker Y; the products with constant factors
\* are left out, the names read and assigned are those of the source
DpCodeCompany ==
  << Stmt("sum", "salary", <<"worker_output">>, 0),
     Stmt("sum", "taxes", <<"revenues", "subsidies", "salary">>, 0) >>
DpCodeWorker ==
  << Stmt("sum", "productive_work", <<"salary", "satisfaction", "goods">>, 0),
     Stmt("sum", "taxes", <<"salary">>, 0) >>

\* Module.evaluate: {output name: float}
dp_evaluate(cd, odef, ins) == Evaluate(cd, odef, ins).res

\* inputs_by_name[p.name] = float(p.value) for p in m.inputs
DpInputsByName(m, val) ==
  LET ps == dp_inputs[m] IN
  [n \in {ps[i].name : i \in 1..Len(ps)} |->
     val[ps[CHOOSE i \in 1..Len(ps) :
               ps[i].name = n /\ \A j \in (i + 1)..Len(ps) : ps[j].name # n]]]

\* App._tick, steps 1-3: zero the ports of m.inputs, add along the cables,
\* evaluate each module and write each result to the port of m.outputs that
\* has its name
DpTick ==
  LET ins == UNION {Range(dp_inputs[m]) : m \in Range(dp_modules)}
      v1 == [p \in DOMAIN dp_value |-> IF p \in ins THEN 0 ELSE dp_value[p]]
      v2 == Propagate(v1, dp_cables)
      res == [m \in DpMods |->
                dp_evaluate(dp_code[m], dp_outputs_def[m], DpInputsByName(m, v2))]
      name_to_port(m) == {p.name : p \in Range(dp_outputs[m])}
  IN [p \in DOMAIN v2 |->
        IF /\ p.module \in Range(dp_modules)
           /\ p \in Range(dp_outputs[p.module])
           /\ p.name \in DOMAIN res[p.module]
        THEN res[p.module][p.name] ELSE v2[p]]

\* App.__init__: wire mode, Company X and Worker Y added, no cable
DpInit ==
  /\ dp_modules = <<1, 2>>
  /\ dp_inputs_def = (1 :> <<"subsidies", "revenues", "worker_output">>)
                   @@ (2 :> <<"salary", "satisfaction", "goods">>) @@ (3 :> <<>>)
  /\ dp_outputs_def = (1 :> <<"taxes", "salary">>)
                    @@ (2 :> <<"taxes", "productive_work">>) @@ (3 :> <<>>)
  /\ dp_code = (1 :> DpCodeCompany) @@ (2 :> DpCodeWorker) @@ (3 :> <<>>)
  /\ dp_gen = [m \in DpMods |-> 0]
  /\ dp_inputs = [m \in DpMods |->
        dp_make_ports(m, 0, dp_inputs_def[m], "left")]
  /\ dp_outputs = [m \in DpMods |->
        dp_make_ports(m, 0, dp_outputs_def[m], "right")]
  /\ dp_cables = <<>>
  /\ dp_drag_src_port = NoPort
  /\ dp_value = DpHeap(<<>>, dp_inputs, dp_outputs, <<>>, NoPort)
  /\ dp_mode = "wire"
  /\ dp_last = <<"init">>

\* the names a port of the patch can have
DpOutNames == {"taxes", "salary", "productive_work", "out"}
DpInNames == {"subsidies", "revenues", "worker_output", "salary", "satisfaction",
              "goods", "in", "a", "b"}

DpIdle == UNCHANGED <<st5vars, p8vars, synvars>>

\* App.set_mode
dp_set_mode(k) ==
  /\ k # dp_mode
  /\ dp_mode' = k
  /\ dp_last' = <<"mode", k>>
  /\ UNCHANGED <<dp_modules, dp_inputs_def, dp_outputs_def, dp_code, dp_gen,
                 dp_inputs, dp_outputs, dp_value, dp_cables, dp_drag_src_port>>
  /\ DpIdle

\* App._on_left_click in add mode on empty canvas: Module("Module 3") with
\* inputs ("in",), outputs ("out",) and the default formula "out = in"
dp_on_left_click ==
  /\ dp_mode = "add"
  /\ DpNewMod \notin Range(dp_modules)
  /\ dp_modules' = Append(dp_modules, DpNewMod)
  /\ dp_inputs_def' = [dp_inputs_def EXCEPT ![DpNewMod] = <<"in">>]
  /\ dp_outputs_def' = [dp_outputs_def EXCEPT ![DpNewMod] = <<"out">>]
  /\ dp_code' = [dp_code EXCEPT ![DpNewMod] = CodeIn]
  /\ dp_inputs' = [dp_inputs EXCEPT ![DpNewMod] =
        dp_make_ports(DpNewMod, dp_gen[DpNewMod], <<"in">>, "left")]
  /\ dp_outputs' = [dp_outputs EXCEPT ![DpNewMod] =
        dp_make_ports(DpNewMod, dp_gen[DpNewMod], <<"out">>, "right")]
  /\ dp_value' = DpHeap(dp_value, dp_inputs', dp_outputs', dp_cables, dp_drag_src_port)
  /\ dp_last' = <<"add", DpNewMod>>
  /\ UNCHANGED <<dp_gen, dp_cables, dp_drag_src_port, dp_mode>>
  /\ DpIdle

\* Module._start_wire -> App.begin_wire_drag: a press on the circle of output
\* n of module m; outside wire mode only the status line changes
dp_begin_wire_drag(m, n) ==
  /\ m \in Range(dp_modules)
  /\ n \in Range(dp_outputs_def[m])
  /\ dp_drag_src_port = NoPort
  /\ dp_drag_src_port' = IF dp_mode = "wire" THEN DpCircle(m, n) ELSE NoPort
  /\ dp_value' = DpHeap(dp_value, dp_inputs, dp_outputs, dp_cables, dp_drag_src_port')
  /\ dp_last' = <<"press", m, n>>
  /\ UNCHANGED <<dp_modules, dp_inputs_def, dp_outputs_def, dp_code, dp_gen,
                 dp_inputs, dp_outputs, dp_cables, dp_mode>>
  /\ DpIdle

\* the search of App._on_left_release: the first port of m.inputs, in module
\* order, under the release point; (m, n) is the input circle drawn there
DpTarget(m, n) ==
  LET hits == {p \in Range(dp_inputs[m]) : p.name = n} IN
  IF hits = {} THEN NoPort ELSE CHOOSE p \in hits : TRUE

\* App._on_left_release over the circle of input n of module m (m = 0: over
\* no input circle)
dp_on_left_release(m, n) ==
  /\ dp_drag_src_port # NoPort
  /\ \/ m = 0 /\ n = ""
     \/ m \in Range(dp_modules) /\ n \in Range(dp_inputs_def[m])
  /\ LET target == IF m = 0 THEN NoPort ELSE DpTarget(m, n) IN
     dp_cables' = IF target # NoPort
                  THEN Append(dp_cables, [src |-> dp_drag_src_port, dst |-> target])
                  ELSE dp_cables
  /\ dp_drag_src_port' = NoPort
  /\ dp_value' = DpHeap(dp_value, dp_inputs, dp_outputs, dp_cables', NoPort)
  /\ dp_last' = <<"release", m, n>>
  /\ UNCHANGED <<dp_modules, dp_inputs_def, dp_outputs_def, dp_code, dp_gen,
                 dp_inputs, dp_outputs, dp_mode>>
  /\ DpIdle

\* Module._remove_cables_touching_ports
DpCablesNotOn(cs, m) == SelectSeq(cs, LAMBDA c : c.src.module # m /\ c.dst.module # m)

\* save() of the editor a double click in math mode opens: the cables of the
\* module are removed, the definitions replaced and the module redrawn
dp_save(m, ins, outs, cd) ==
  /\ dp_mode = "math"
  /\ dp_drag_src_port = NoPort
  /\ m \in Range(dp_modules)
  /\ dp_gen[m] < MaxDpGen
  /\ dp_cables' = DpCablesNotOn(dp_cables, m)
  /\ dp_inputs_def' = [dp_inputs_def EXCEPT ![m] = IF ins = <<>> THEN <<"in">> ELSE ins]
  /\ dp_outputs_def' = [dp_outputs_def EXCEPT ![m] = IF outs = <<>> THEN <<"out">> ELSE outs]
  /\ dp_code' = [dp_code EXCEPT ![m] = cd]
  /\ dp_gen' = [dp_gen EXCEPT ![m] = @ + 1]
  /\ dp_inputs' = [dp_inputs EXCEPT ![m] =
        dp_make_ports(m, dp_gen'[m], dp_inputs_def'[m], "left")]
  /\ dp_outputs' = [dp_outputs EXCEPT ![m] =
        dp_make_ports(m, dp_gen'[m], dp_outputs_def'[m], "right")]
  /\ dp_value' = DpHeap(dp_value, dp_inputs', dp_outputs', dp_cables', NoPort)
  /\ dp_last' = <<"save", m>>
  /\ UNCHANGED <<dp_modules, dp_drag_src_port, dp_mode>>
  /\ DpIdle

\* App._tick, fired by the timer it re-arms every 125 ms
dp_tick ==
  /\ dp_value' = DpTick
  /\ dp_last' = <<"tick">>
  /\ UNCHANGED <<dp_modules, dp_inputs_def, dp_outputs_def, dp_code, dp_gen,
                 dp_inputs, dp_outputs, dp_cables, dp_drag_src_port, dp_mode>>
  /\ DpIdle

vars == <<st5vars, p8vars, synvars, dpvars>>

\* both programs as started, nothing wired in prototype8
PatchStart == PatchInit /\ P8Init /\ SynInit /\ DpInit
\* a wired simpletype5 patch, prototype8 as started
EngineStart == EngineInit /\ P8Init /\ SynInit /\ DpInit

SpecPatch == PatchStart /\ [][PatchNext]_vars
SpecEngine == EngineStart /\ [][EngineNext]_vars
\* a scheduled Tk timer callback eventually runs
FairEngine == SpecEngine /\ WF_vars(TimerFire)
SpecP8 == PatchStart /\ [][P8Next]_vars

\* cables are drawn in simpletype5 (wire mode) and Port.connect_to is called
\* on any two ports of prototype8
WiringNext ==
  \/ \E p \in LivePorts(gen, inputs_def, outputs_def) : PressPort(p)
  \/ \E t \in Targets \cup {NoPort} : Release(t)
  \/ \E a, b \in ChainPorts : ConnectTo(a, b)

SpecWiring == PatchStart /\ [][WiringNext]_vars

\* both programs as started, simpletype5 with its Scope
AppStart == AppInit /\ P8Init /\ SynInit /\ DpInit

\* histories are recorded: simpletype5 is single-stepped while module 2 is
\* cabled to the Scope; in prototype8 a constant is wired to the integrator,
\* and the engine is stepped and reset
HistoryNext ==
  \/ StepSim
  \/ PressPort(Outputs(2, gen, outputs_def)[1])
  \/ Release(Inputs(3, gen, inputs_def)[1])
  \/ \E n \in {"Input", "Position"} : add_node(n)
  \/ connect_nodes("Input", "out", "Position", "in")
  \/ P8Step
  \/ P8Reset

\* a module is added, out = 5 is typed into the code box of module 2 and
\* out = 3 into that of module 4 (ports left as they are), their outputs are cabled to the inputs of
\* module 1, and the simulation is single-stepped
SumNext ==
  \/ \E k \in {"add", "wire", "math"} : SetMode(k)
  \/ Press(0)
  \/ \E m \in {2, NewMod} : \E p \in Range(Outputs(m, gen, outputs_def)) : PressPort(p)
  \/ \E t \in Range(Inputs(1, gen, inputs_def)) \cup {NoPort} : Release(t)
  \/ EditorSave(2, inputs_def[2], outputs_def[2], CodeFive)
  \/ EditorSave(NewMod, inputs_def[NewMod], outputs_def[NewMod], CodeThree)
  \/ StepSim

SpecSum == AppStart /\ [][SumNext]_vars

\* cables are drawn and removed, also a second time, and the simulation is
\* single-stepped
CablesNext ==
  \/ \E p \in LivePorts(gen, inputs_def, outputs_def) : PressPort(p)
  \/ \E t \in Targets \cup {NoPort} : Release(t)
  \/ \E i \in 0..Len(cables) : CableRemove(i)
  \/ StepSim

SpecCables == PatchStart /\ [][CablesNext]_vars

\* the code save() stores for an empty code box: "# define outputs here"
CodeComment == <<>>

\* module 1 is redefined in the editor (its input named a, b or out, its
\* formula the sum or a comment), module 2 is cabled to it, and the
\* simulation is single-stepped
EvaluateNext ==
  \/ \E k \in {"wire", "math"} : SetMode(k)
  \/ \E p \in Range(Outputs(2, gen, outputs_def)) : PressPort(p)
  \/ \E t \in Range(Inputs(1, gen, inputs_def)) \cup {NoPort} : Release(t)
  \/ \E ein \in {<<"a", "b">>, <<"out">>} : \E cd \in {CodeSum, CodeComment} :
       EditorSave(1, ein, <<"out">>, cd)
  \/ StepSim

SpecEvaluate == AppStart /\ [][EvaluateNext]_vars

NoiseStart == NoiseInit /\ P8Init /\ SynInit /\ DpInit

SpecNoise == NoiseStart /\ [][EngineNext]_vars

SpecIntegrator == PatchStart /\ [][IntegratorNext]_vars

\* every operation on the engine and its graph, and the window's buttons
\* prototype8 with a node that has no output next to the demo nodes
ProbeNext ==
  \/ \E n \in {"Input", "Position", "Probe"} : add_node(n)
  \/ connect_nodes("Input", "out", "Position", "in")
  \/ P8Step
  \/ P8Reset
SpecProbe == PatchStart /\ [][ProbeNext]_vars

ClockNext ==
  \/ \E n \in {"Input", "Position"} : add_node(n)
  \/ \E f, t \in {"Input", "Position"} : connect_nodes(f, "out", t, "in")
  \/ \E a, b \in {p \in P8Ports : p.node \in {"Input", "Position"}} : ConnectTo(a, b)
  \/ P8Step
  \/ P8Reset
  \/ toggle_simulation
  \/ reset_simulation

SpecClock == PatchStart /\ [][ClockNext]_vars

\* agents are added in any order and connected
SynthNext ==
  \/ \E a \in SynIds : syn_add_agent(a)
  \/ \E a, b \in SynIds : add_connection(a, b, SynInputName(b))

SpecSynth == PatchStart /\ [][SynthNext]_vars

SpecHistory == AppStart /\ [][HistoryNext]_vars

\* cables are drawn (hotkey w) and modules are redefined in the editor
\* (hotkey e)
EditorNext ==
  \/ \E k \in {"wire", "math"} : SetMode(k)
  \/ \E p \in LivePorts(gen, inputs_def, outputs_def) : PressPort(p)
  \/ \E t \in Targets \cup {NoPort} : Release(t)
  \/ \E m \in Mods : \E ein \in EditorInputs : \E eout \in EditorOutputs :
       \E cd \in EditorCodes : EditorSave(m, ein, eout, cd)

SpecEditor == PatchStart /\ [][EditorNext]_vars

\* dirtyPrototype5: modes, an added module, wire drags, editor saves, ticks
DirtyNext ==
  \/ \E k \in {"add", "wire", "math"} : dp_set_mode(k)
  \/ dp_on_left_click
  \/ \E m \in DpMods : \E n \in DpOutNames : dp_begin_wire_drag(m, n)
  \/ \E m \in DpMods \cup {0} : \E n \in DpInNames \cup {""} : dp_on_left_release(m, n)
  \/ \E m \in DpMods : \E ins \in {<<"a", "b">>, <<"in">>} :
       \E cd \in {CodeSum, CodeOne} : dp_save(m, ins, <<"out">>, cd)
  \/ dp_tick
SpecDirty == PatchStart /\ [][DirtyNext]_vars

\* =========================================================================
\* Properties of simpletype5
\* =========================================================================

\* the ports of the listed modules and the ports the cables hold
PatchPorts ==
  UNION {Range(Inputs(m, gen, inputs_def)) \cup Range(Outputs(m, gen, outputs_def)) :
           m \in Range(modules)}
  \cup CablePorts(cables)

CablesInto(p) == {i \in 1..Len(cables) : cables[i].dst = p}

\* the sum of the source values of the cables into p, taken in the current state
FanIn(p) == SumSet([i \in 1..Len(cables) |-> value[cables[i].src]], CablesInto(p))

\* C1: after the zero-inputs and propagation phases of a tick started in any
\* reachable state, every input port holds the sum of the start-of-tick values
\* of the sources of the cables into it (0 when no cable targets it).
C1_FanInIsSum ==
  LET v == AfterPropagation(value, modules, cables, gen, inputs_def) IN
  \A p \in {q \in PatchPorts : q.kind = "in"} : v[p] = FanIn(p)

\* C4: after _stop_sim the engine is stopped, every port of every module and
\* every port held by a cable is 0.0, and every Scope buffer is as initially.
C4_StopResetsEverything ==
  last[1] = "stop" =>
    /\ ~running /\ ~paused
    /\ \A p \in PatchPorts : value[p] = 0
    /\ \A m \in DOMAIN history : \A n \in DOMAIN history[m] : history[m][n] = ZeroBuf

\* C5: _step_sim called while Paused or Stopped runs exactly one _do_tick and
\* leaves running = paused = True; while the engine is Paused or Stopped a
\* timer callback runs no _do_tick and changes neither flag.
C5_StepRunsOneTick ==
  [][ /\ ((~running \/ paused) /\ last'[1] = "step")
          => (running' /\ paused' /\ last'[2] = 1)
      /\ ((~running \/ paused) /\ last'[1] = "timer")
          => (last'[2] = 0 /\ UNCHANGED <<running, paused>>) ]_vars

\* a step was taken while a timer callback is scheduled, and the engine is Paused
C5_Witness == last = <<"step", 1>> /\ running /\ paused /\ pending > 0

\* the engine has just been resumed by _pause_sim and a tick stays within the
\* model's value bound
Resumed == last[1] = "pause" /\ running /\ ~paused /\ InBounds(Tick.value)

\* C6: _pause_sim toggles Running <-> Paused; a Paused engine runs no tick on
\* a timer callback; a resumed engine eventually runs a further timer tick
\* (or the user issues another command first).
C6_PauseResume ==
  /\ [][ (running /\ last'[1] = "pause") => (running' /\ paused' = ~paused) ]_vars
  /\ [][ (running /\ paused /\ last'[1] = "timer") => last'[2] = 0 ]_vars
  /\ (Resumed ~> (last[1] # "pause"))

\* C7: no cable has an endpoint on a port of a module that is not in
\* App.modules (modules leave App.modules only through _delete_module).
C7_DeletedModuleStaysDetached ==
  \A i \in 1..Len(cables) :
    cables[i].src.module \in Range(modules) /\ cables[i].dst.module \in Range(modules)

\* whether exec of module m's formula raises in a tick started now
FormulaRaises(m) ==
  LET ins == InputDict(m, AfterPropagation(value, modules, cables, gen, inputs_def),
                       gen, inputs_def)
  IN Raises(code[m], [n \in DOMAIN ins |-> Num(ins[n])])

\* C9: when the formula of a module raises during a tick, every output port
\* of that module holds 0.0 after the tick.
C9_RaisingFormulaYieldsZero ==
  LET t == Tick IN
  \A m \in Range(modules) :
    (~IsScope(m) /\ m \in t.evaluated /\ FormulaRaises(m))
      => \A p \in Range(Outputs(m, gen, outputs_def)) : t.value[p] = 0

\* C10: whatever the formulas, _do_tick runs to completion and evaluates every
\* module, and a _tick call that leaves running true has scheduled its successor.
C10_NoFormulaIsFatal ==
  LET t == Tick IN
  /\ ~t.raised
  /\ t.evaluated = Range(modules)
  /\ (last[1] \in {"start", "timer"} /\ running) => pending > 0

\* =========================================================================
\* Properties of prototype8
\* =========================================================================

\* the output port that get_value reads for input port p
Feeder(p) == p8_connections[p][1]

\* C2: in a step started in any reachable state, a node that reads the out
\* port of an IntegratorNode other than itself reads the value the port held
\* before the step.
C2_ReaderSeesPreviousStep ==
  LET c == ComputeAll(p8_nodes, p8_connections, p8_value, p8_state, EmptyDict) IN
  \A p \in DOMAIN c.reads :
    (/\ p8_connections[p] # <<>>
     /\ P8Class[Feeder(p).node] = "Integrator"
     /\ Feeder(p).node # p.node)
      => c.reads[p] = p8_value[Feeder(p)]

\* C3: from any reachable state, reset followed by n steps records the same
\* history (time stamps and output values of every node) as n steps of the
\* same graph freshly constructed.
C3_ResetReproducesFreshRun ==
  \A n \in 0..MaxSteps :
    Run(p8_nodes, p8_connections, ResetFn(p8_nodes, P8Current), n).history
      = Run(p8_nodes, p8_connections, FreshState, n).history

\* C8: a connect_nodes call that does not return True leaves every
\* Port.connections list and NodeEditorScene.connections as they were.
C8_FailedConnectChangesNothing ==
  [][ (p8_last'[1] = "connect_nodes" /\ p8_last'[2] # "True")
        => UNCHANGED <<p8_connections, p8_scene_connections>> ]_vars

\* C11: every cable of simpletype5 runs from an "out" port to an "in" port;
\* in prototype8 every entry of an output port's connections is an input
\* port and every entry of an input port's connections is an output port.
C11_SourceOutDestinationIn ==
  /\ \A i \in 1..Len(cables) : cables[i].src.kind = "out" /\ cables[i].dst.kind = "in"
  /\ \A p \in P8Ports : \A i \in 1..Len(p8_connections[p]) :
       p8_connections[p][i].is_output # p.is_output

\* a cable and a connection exist, and a connect_to call in a wrong direction
\* has just been refused
C11_Witness ==
  /\ Len(cables) > 0
  /\ ConnectCount > 0
  /\ p8_last = <<"connect_to", "False">>

\* no two entries of the list of names are equal
NoRepeat(names) ==
  \A i, j \in 1..Len(names) : names[i] = names[j] => i = j

\* the names of a list of ports, in order
PortNames(ps) == [i \in 1..Len(ps) |-> ps[i].name]

\* C12: in every reachable state no two input ports of a listed module share
\* a name and no two of its output ports share a name.
C12_PortNamesUnique ==
  \A m \in Range(modules) :
    /\ NoRepeat(PortNames(Inputs(m, gen, inputs_def)))
    /\ NoRepeat(PortNames(Outputs(m, gen, outputs_def)))

Min(a, b) == IF a < b THEN a ELSE b

\* the last n entries of s
LastN(s, n) == SubSeq(s, Len(s) - n + 1, Len(s))

\* the values node n's out port holds after each of the first k steps taken
\* from engine state s
OutsAfter(n, s, k) ==
  [j \in 1..k |-> Run(p8_nodes, p8_connections, s, j).value[P8Port(n, TRUE, "out")]]

\* prototype8: k steps after a reset, the values list of every node holds the
\* last min(k, max_history) values of its out port, oldest first
P8HistoryFifo ==
  LET s0 == ResetFn(p8_nodes, P8Current) IN
  \A k \in 1..MaxSteps :
    LET r == Run(p8_nodes, p8_connections, s0, k) IN
    \A n \in Range(p8_nodes) :
      r.history[n].values["out"] = LastN(OutsAfter(n, s0, k), Min(k, max_history))

\* simpletype5: every Scope buffer has history_len entries; a tick that
\* evaluates the Scope drops the oldest entry of each buffer and appends the
\* value of the input of that name
ScopeHistoryFifo ==
  LET t == Tick
      v == AfterPropagation(value, modules, cables, gen, inputs_def)
  IN \A m \in DOMAIN history : \A n \in DOMAIN history[m] :
       /\ Len(history[m][n]) = HistoryLen
       /\ m \in t.evaluated =>
            t.history[m][n] =
              Tail(history[m][n]) \o <<InputDict(m, v, gen, inputs_def)[n]>>

\* C13: history buffers are bounded FIFO, in prototype8 (values lists of
\* SimulationEngine.history) and in simpletype5 (Scope.history).
C13_HistoryIsBoundedFifo == P8HistoryFifo /\ ScopeHistoryFifo

\* a Scope buffer and a prototype8 values list are full, each holds two
\* different samples, and prototype8 has evicted a sample
C13_Witness ==
  /\ \E m \in DOMAIN history : \E n \in DOMAIN history[m] :
       history[m][n][1] # history[m][n][HistoryLen]
  /\ p8_time > max_history * dt
  /\ \E n \in DOMAIN p8_history :
       /\ Len(p8_history[n].values["out"]) = max_history
       /\ p8_history[n].values["out"][1] # p8_history[n].values["out"][max_history]

\* C14: a constant wired to the in port of an integrator that starts at 0:
\* after n steps of a freshly built engine the integrator's out port holds
\* value * dt * n, for either order of the two nodes in the engine's list.
C14_IntegratorRamp ==
  LET c == "Input"
      i == "Velocity"
  IN (/\ Len(p8_nodes) = 2 /\ Range(p8_nodes) = {c, i}
      /\ p8_connections[P8Port(i, FALSE, "in")] = <<P8Port(c, TRUE, "out")>>)
     => \A n \in 1..MaxSteps :
          Run(p8_nodes, p8_connections, FreshState, n).value[P8Port(i, TRUE, "out")]
            = constant_value * dt * n

\* the patch state s = [value, history, gen, cables] after one _do_tick call
TickOn(s) ==
  LET t == DoTick(modules, s.cables, s.value, s.history, s.gen,
                  inputs_def, outputs_def, code, CHOOSE nz \in NoiseDraws : TRUE)
      h == Heap(t.value, t.gen, s.cables, NoPort, inputs_def, outputs_def)
  IN [value |-> h.value, history |-> t.history, gen |-> h.gen, cables |-> h.cables]

\* k calls of _do_tick
RECURSIVE Ticks(_, _)
Ticks(s, k) == IF k = 0 THEN s ELSE Ticks(TickOn(s), k - 1)

PatchState == [value |-> value, history |-> history, gen |-> gen, cables |-> cables]

\* modules 2 and 4 hold the formulas out = 5 and out = 3, and are cabled to
\* the inputs a and b of module 1, whose formula is out = a + b
SumPatch ==
  /\ NewMod \in Range(modules)
  /\ {code[2], code[NewMod]} = {CodeFive, CodeThree}
  /\ code[1] = CodeSum
  /\ Len(cables) = 2
  /\ {cables[1].src, cables[2].src} =
       {Outputs(2, gen, outputs_def)[1], Outputs(NewMod, gen, outputs_def)[1]}
  /\ {cables[1].dst, cables[2].dst} = Range(Inputs(1, gen, inputs_def))

\* C15: two constants 5 and 3 cabled to a and b of out = a + b: from the
\* all-zero port state the sum module's out port holds 8 after the first tick
\* and after every later tick.
C15_SumOfConstants ==
  (SumPatch /\ \A p \in DOMAIN value : value[p] = 0)
    => \A k \in 1..MaxTicks :
         LET s == Ticks(PatchState, k)
         IN s.value[Outputs(1, s.gen, outputs_def)[1]] = 8

\* C16: _do_tick is deterministic: any two executions from the same state
\* end with the same port values and the same Scope histories.
C16_TickIsDeterministic ==
  \A t1, t2 \in TickOutcomes : t1.value = t2.value /\ t1.history = t2.history

\* the agents connected to the inputs of agent a
Sources(a) == {syn_inputs[a][n] : n \in SynInputNames} \ {NoAgent}

\* agent b's state depends on agent a's through k or fewer connections
RECURSIVE Feeds(_, _, _)
Feeds(a, b, k) ==
  k > 0 /\ (a \in Sources(b) \/ \E c \in Sources(b) : Feeds(a, c, k - 1))

Acyclic == \A a \in SynIds : ~Feeds(a, a, Cardinality(SynIds))

\* the position of agent a in the sequence order
PosIn(order, a) == CHOOSE i \in 1..Len(order) : order[i] = a

\* C17: for every acyclic connection graph and every order in which the
\* agents were added, get_update_order places each agent strictly after all
\* agents connected to its inputs.
C17_OrderFollowsConnections ==
  Acyclic =>
    LET order == get_update_order(syn_agents) IN
    \A a \in Range(syn_agents) : \A b \in Sources(a) :
      PosIn(order, b) < PosIn(order, a)

\* the operations that reset the engine
Resets == {"reset", "reset_simulation"}

ModuleOrders(ms) ==
  {q \in [1..Len(ms) -> Range(ms)] : \A i, j \in 1..Len(ms) : q[i] = q[j] => i = j}

\* C19: cables are read before any module is evaluated, so the port values
\* after a tick are the same for every permutation of App.modules.
C19_ModuleOrderIrrelevant ==
  \A q \in ModuleOrders(modules) : \A nz \in NoiseDraws :
    DoTick(q, cables, value, history, gen, inputs_def, outputs_def, code, nz).value
      = DoTick(modules, cables, value, history, gen, inputs_def, outputs_def, code, nz).value

\* C20: no operation other than deleting a module or saving its editor
\* replaces its Port objects: every cable of App.cables has its src among the
\* outputs of src.module and its dst among the inputs of dst.module.
C20_CablesOnCurrentPorts ==
  \A i \in 1..Len(cables) :
    /\ cables[i].src \in Range(Outputs(cables[i].src.module, gen, outputs_def))
    /\ cables[i].dst \in Range(Inputs(cables[i].dst.module, gen, inputs_def))

\* C21: the value compute reads from an input port through Port.get_value is
\* the sum of the current values of all output ports connected to it (0 when
\* none is connected).
C21_InputReadsSumOfSources ==
  \A p \in P8Ports :
    ~p.is_output =>
      get_value(p, p8_connections, p8_value)
        = SumSet(p8_value, Range(p8_connections[p]))

\* the names the formula cd assigns
Assigned(cd) == {cd[i].tgt : i \in {j \in 1..Len(cd) : cd[j].op \in {"set", "sum", "str"}}}

\* C22: Module.evaluate returns 0.0 for every declared output name the
\* formula does not assign, whatever the declared names (a name may be both
\* an input and an output) and the input values.
C22_UnassignedOutputIsZero ==
  \A m \in Range(modules) \ ScopeMods :
    LET ins == InputDict(m, value, gen, inputs_def)
        e == Evaluate(code[m], outputs_def[m], ins)
    IN \A n \in Range(outputs_def[m]) \ Assigned(code[m]) : e.res[n] = 0

\* what identifies the Port object p of a module other than the saved one:
\* its place in the module and whether it is one of the module's current ports
PortShape(p, g) ==
  [module |-> p.module, kind |-> p.kind, name |-> p.name, pos |-> p.pos,
   current |-> p.gen = g[p.module]]

CableShape(c, g) == [src |-> PortShape(c.src, g), dst |-> PortShape(c.dst, g)]

\* the cables of cs with both ends on modules other than m
Others(cs, m) == SelectSeq(cs, LAMBDA c : c.src.module # m /\ c.dst.module # m)

\* C23: right after the editor of module m is saved no cable has an end on m,
\* and the cables between other modules are all still in App.cables, in
\* order, with the same endpoints.
C23_SaveDetachesOnlyThatModule ==
  [][ \A m \in Mods :
        last' = <<"save", m>> =>
          /\ \A i \in 1..Len(cables') :
               cables'[i].src.module # m /\ cables'[i].dst.module # m
          /\ [i \in 1..Len(cables') |-> CableShape(cables'[i], gen')]
               = [i \in 1..Len(Others(cables, m)) |-> CableShape(Others(cables, m)[i], gen)]
    ]_vars

\* module 1 has just been saved and a cable between ports of module 2 is
\* still there
C23_Witness ==
  /\ last = <<"save", 1>>
  /\ Len(cables) > 0
  /\ \A i \in 1..Len(cables) : cables[i].src.module = 2 /\ cables[i].dst.module = 2

\* the values of the current ports of every module, by place in the module
CurrentValues(val, g, idef, odef) ==
  [m \in Mods |->
     [ins |-> [k \in 1..Len(idef[m]) |-> val[Inputs(m, g, idef)[k]]],
      outs |-> [k \in 1..Len(odef[m]) |-> val[Outputs(m, g, odef)[k]]]]]

\* C24: Cable._remove removes exactly that cable: the other cables stay in
\* App.cables in their order, no port value and no module changes, and a
\* call on a cable already removed changes nothing.
C24_RemoveTakesOneCable ==
  [][ \A i \in 0..MaxCables :
        last' = <<"remove", i>> =>
          /\ LET rest == IF i = 0 THEN cables ELSE RemoveAt(cables, i) IN
             [k \in 1..Len(cables') |-> CableShape(cables'[k], gen')]
               = [k \in 1..Len(rest) |-> CableShape(rest[k], gen)]
          /\ CurrentValues(value', gen', inputs_def', outputs_def')
               = CurrentValues(value, gen, inputs_def, outputs_def)
          /\ UNCHANGED <<modules, inputs_def, outputs_def, code, port_items>>
    ]_vars

\* a cable has just been removed, another cable is still there, and its
\* input port holds a value a tick has propagated
C24_Witness ==
  /\ last[1] = "remove" /\ last[2] > 0
  /\ Len(cables) > 0
  /\ value[cables[1].dst] > 0

\* C25: in dirtyPrototype5, after a module is created or redrawn, module.inputs
\* holds one "in" Port for each declared input name and module.outputs one
\* "out" Port for each declared output name, in declaration order
C25_PortListsFollowDeclarations ==
  \A m \in Range(dp_modules) :
    /\ dp_inputs[m] = [i \in 1..Len(dp_inputs_def[m]) |->
                         DpPort(m, dp_gen[m], "in", dp_inputs_def[m][i])]
    /\ dp_outputs[m] = [i \in 1..Len(dp_outputs_def[m]) |->
                          DpPort(m, dp_gen[m], "out", dp_outputs_def[m][i])]

\* C25, the consequence for wiring: a wire released over the circle of an
\* input port adds a cable
C25_ReleaseOverInputAddsCable ==
  [][ (dp_last'[1] = "release" /\ dp_last'[2] # 0) =>
        Len(dp_cables') = Len(dp_cables) + 1 ]_vars

\* C26: in simpletype5 at most one self-rescheduling App._tick callback is
\* pending at any time, whatever the sequence of Start, Pause, Stop, Step and
\* timer firings
C26_OneTimerPending == pending <= 1

\* C27: in simpletype5 the flags never reach running = False with
\* paused = True: after any sequence of _start_sim, _pause_sim, _stop_sim,
\* _step_sim and timer firings, paused implies running
C27_PausedImpliesRunning == paused => running

\* Pause has just been pressed on an engine that is not running
C27_Witness == last = <<"pause", 0>> /\ ~running /\ ~paused

\* C28: in prototype8, whenever no step is in progress, the out port of every
\* IntegratorNode of the engine holds the node's state["value"]: after
\* construction, after every step and after reset
C28_IntegratorOutIsState ==
  \A n \in P8Integrators \cap Range(p8_nodes) :
    p8_value[P8Port(n, TRUE, "out")] = p8_state[n]

\* C29: in prototype8, after any number of steps, the time list of every node
\* in SimulationEngine.history has at most max_history entries and the length
\* of each of the node's values lists, whatever the number of its outputs
C29_TimeListMatchesValues ==
  \A n \in DOMAIN p8_history :
    /\ Len(p8_history[n].time) <= max_history
    /\ \A name \in DOMAIN p8_history[n].values :
         Len(p8_history[n].values[name]) = Len(p8_history[n].time)

\* C30: in simpletype5, App.cables never holds two cables with the same
\* (src port, dst port) pair
C30_NoDuplicateCable ==
  \A i, j \in 1..Len(cables) :
    (cables[i].src = cables[j].src /\ cables[i].dst = cables[j].dst) => i = j

====
